---------------------------- MODULE Spec2Model ----------------------------
(***************************************************************************)
(* Model of sage_lock.cpp: the volume-key gesture detector that toggles    *)
(* the touch digitizers.                                                   *)
(*                                                                         *)
(* The program state is the five globals of lines 50-54, the MSG local of  *)
(* the message loop and the position of the input thread.  The tick        *)
(* counter read by GetTickCount64 is an environment variable that only     *)
(* grows; other and exits are environment variables too: whether another   *)
(* instance holds the named mutex, and how many pnputil child processes    *)
(* have exited.  accepted and requests are history variables: the log of   *)
(* the key events that passed the filter of pWndProc, and the log of the   *)
(* calls made to ToggleTouchDevice and SoundEffect.                        *)
(***************************************************************************)
EXTENDS Integers, Sequences, FiniteSets

VARIABLES
    Volume_Event_History,   \* std::array<DWORD, 4>, indexed 0..3
    Current_Index,          \* WORD
    Last_Volume_Event,      \* DWORD64, tick of the last accepted event
    lock_enabled,           \* int, 0 or 1
    g_TouchScreens,         \* std::vector<std::wstring>
    msg,                    \* MSG msg of InputEventThread
    pc,                     \* where the process is
    cur,                    \* index in g_TouchScreens of the child being waited for
    clock,                  \* the tick counter (ms), as of the last step
    other,                  \* another instance holds Global\SAGE_LOCK_INSTANCE
    exits,                  \* child processes that have exited
    accepted,               \* history: accepted key events
    requests                \* history: device-toggle and sound requests

vars == <<Volume_Event_History, Current_Index, Last_Volume_Event, lock_enabled,
          g_TouchScreens, msg, pc, cur, clock, other, exits, accepted, requests>>

core == <<Volume_Event_History, Current_Index, Last_Volume_Event, lock_enabled>>

-----------------------------------------------------------------------------
(* Bounds of the model *)

MaxEvents == 7

MaxDevices == 2

MaxDouble == 8

MaxHang == 5

MaxStartup == 4

MaxBlock == 8

(* Program constants *)

DEBOUNCE_MS == 500

VK_VOLUME_DOWN == 174

VK_VOLUME_UP == 175

HISTORY_LAST == 3

-----------------------------------------------------------------------------
(* Inputs *)

\* Elapsed ticks between two consecutive readings of the tick counter: the
\* largest gap that keeps a gesture alive and the smallest that breaks it.
Gaps == {DEBOUNCE_MS, DEBOUNCE_MS + 1}

\* How long a pnputil child process runs.
BlockTimes == {0, DEBOUNCE_MS + 1}

KeyDown(vk) ==
    [uMsg |-> "WM_INPUT", dwType |-> "RIM_TYPEKEYBOARD", Message |-> "WM_KEYDOWN", VKey |-> vk]

NoMsg == [uMsg |-> "none", dwType |-> "none", Message |-> "none", VKey |-> 0]

\* Raw messages the loop can receive: the two volume keys going down, a
\* volume key going up, another key going down, a mouse input, and a
\* window message that is not WM_INPUT.
Messages ==
    { KeyDown(VK_VOLUME_UP), KeyDown(VK_VOLUME_DOWN),
      [uMsg |-> "WM_INPUT", dwType |-> "RIM_TYPEKEYBOARD", Message |-> "WM_KEYUP", VKey |-> VK_VOLUME_UP],
      KeyDown(173),
      [uMsg |-> "WM_INPUT", dwType |-> "RIM_TYPEMOUSE", Message |-> "none", VKey |-> 0],
      [uMsg |-> "WM_CREATE", dwType |-> "none", Message |-> "none", VKey |-> 0] }

-----------------------------------------------------------------------------
(* The pure parts of the code *)

\* The filter without its test of the key transition (line 198).
IsVolumeKeyDown_AnyTransition(m) ==
    /\ m.uMsg = "WM_INPUT"
    /\ m.dwType = "RIM_TYPEKEYBOARD"
    /\ (m.VKey = VK_VOLUME_UP \/ m.VKey = VK_VOLUME_DOWN)

\* pWndProc, lines 190-200: the filter in front of SetKbdHistoryIndex.
IsVolumeKeyDown(m) ==
    /\ m.uMsg = "WM_INPUT"
    /\ m.dwType = "RIM_TYPEKEYBOARD"
    /\ m.Message = "WM_KEYDOWN"
    /\ (m.VKey = VK_VOLUME_UP \/ m.VKey = VK_VOLUME_DOWN)

\* CheckForVolumeUpDownUpDown, lines 59-62: the value returned.
CheckForVolumeUpDownUpDown(h) ==
    /\ h[0] = VK_VOLUME_UP
    /\ h[1] = VK_VOLUME_DOWN
    /\ h[2] = VK_VOLUME_UP
    /\ h[3] = VK_VOLUME_DOWN

\* The matcher without its reset of the cursor (line 58).
IndexAfterCheck_Kept(i) == i

\* The matcher leaving the cursor one before slot 0, (WORD)-1, for the
\* increment of line 75 to land on slot 0.
IndexAfterCheck_MinusOne(i) == 65535

\* CheckForVolumeUpDownUpDown, line 58: the cursor it leaves behind.
IndexAfterCheck(i) == 0

\* The debouncer with >= for > in the test of line 71.
GetAvailableKbdHistoryIndex_AtThreshold(idx, timeSinceLast) ==
    LET stepped == IF timeSinceLast >= DEBOUNCE_MS THEN 0 ELSE (idx + 1) % 65536
    IN  IF stepped > HISTORY_LAST THEN 0 ELSE stepped

\* The debouncer with the reset of line 72 skipped when the cursor is
\* already 0, the increment of line 75 running instead.
GetAvailableKbdHistoryIndex_NoResetAtZero(idx, timeSinceLast) ==
    LET stepped == IF timeSinceLast > DEBOUNCE_MS /\ idx # 0 THEN 0 ELSE (idx + 1) % 65536
    IN  IF stepped > HISTORY_LAST THEN 0 ELSE stepped

\* GetAvailableKbdHistoryIndex, lines 71-80: the cursor it returns, from the
\* cursor before and the ticks since the last accepted event.
GetAvailableKbdHistoryIndex(idx, timeSinceLast) ==
    LET stepped == IF timeSinceLast > DEBOUNCE_MS THEN 0 ELSE (idx + 1) % 65536
    IN  IF stepped > HISTORY_LAST THEN 0 ELSE stepped

\* The test of line 179 one slot early.
MatcherCalled_Early(i) == i >= HISTORY_LAST - 1

\* SetKbdHistoryIndex, line 179: whether the matcher is called for slot i.
MatcherCalled(i) == i = HISTORY_LAST

\* Line 180 setting the lock instead of flipping it.
Toggled_Set(lock) == 1

\* SetKbdHistoryIndex, line 180: lock_enabled = !lock_enabled.
Toggled(lock) == IF lock = 0 THEN 1 ELSE 0

\* Lines 183 and 185 passing lock_enabled itself.
EnableFlag_Plain(lock) == lock # 0

\* SetKbdHistoryIndex, lines 183 and 185: the argument !lock_enabled.
EnableFlag(lock) == lock = 0

\* What GetLastError can return after the CreateMutex of line 237: the mutex
\* was created, or it exists and was opened, or it exists and the caller is
\* refused access to it (CreateMutex returns NULL).
CreateMutexErrors(held) ==
    IF held THEN {"ERROR_ALREADY_EXISTS", "ERROR_ACCESS_DENIED"} ELSE {"ERROR_SUCCESS"}

\* CheckIfAlreadyRunning, lines 236-243: the value returned.
CheckIfAlreadyRunning(err) == err = "ERROR_ALREADY_EXISTS"

\* SoundEffect, line 172: the file played.
SoundFile(enable) == IF enable THEN "Speech On.wav" ELSE "Speech Off.wav"

\* ToggleTouchDevice, line 86: the switch given to pnputil.
PnpSwitch(enable) == IF enable THEN "/enable-device" ELSE "/disable-device"

\* GetTouchScreens, lines 105-168: the registry it leaves for n digitizers
\* found, each named by its place in the enumeration.
GetTouchScreens(n) == [k \in 1..n |-> k]

-----------------------------------------------------------------------------
Init ==
    /\ Volume_Event_History = [k \in 0..HISTORY_LAST |-> 0]
    /\ Current_Index = 0
    /\ Last_Volume_Event = 0
    /\ lock_enabled = 0
    /\ g_TouchScreens = <<>>
    /\ msg = NoMsg
    /\ pc = "WinMain"
    /\ cur = 0
    /\ clock = 0
    /\ other \in BOOLEAN
    /\ exits = 0
    /\ accepted = <<>>
    /\ requests = <<>>

\* WinMain, lines 245-258, up to the start of the message loop.
WinMain(err, n) ==
    /\ pc = "WinMain"
    /\ err \in CreateMutexErrors(other)
    /\ IF CheckIfAlreadyRunning(err)
       THEN /\ pc' = "exit"
            /\ UNCHANGED g_TouchScreens
       ELSE /\ g_TouchScreens' = GetTouchScreens(n)
            /\ pc' = "GetMessage"
    /\ UNCHANGED <<core, msg, cur, clock, other, exits, accepted, requests>>

\* The request records of the for loop of lines 182-185, run from entry `from`
\* for event number ev: the launches of from..ok-1 fail (lines 94-97), then
\* either entry ok is launched and waited for, or the loop is over and the
\* sound is played.
ToggleRequest(ev, k, enable, launched) ==
    [ev |-> ev, op |-> "toggle", device |-> g_TouchScreens[k], enable |-> enable,
     arg |-> PnpSwitch(enable), launched |-> launched]

SoundRequest(ev, enable) ==
    [ev |-> ev, op |-> "sound", device |-> 0, enable |-> enable,
     arg |-> SoundFile(enable), launched |-> TRUE]

LoopRequests(ev, from, ok, enable) ==
    [k \in 1..(ok - from) |-> ToggleRequest(ev, from + k - 1, enable, FALSE)]
    \o (IF ok <= Len(g_TouchScreens)
        THEN <<ToggleRequest(ev, ok, enable, TRUE)>>
        ELSE <<SoundRequest(ev, enable)>>)

\* The for loop of lines 182-185 given up at the first launch that fails,
\* as if the failure of line 94 were passed on to the caller.
RunLoop_AbortOnFailure(ev, from, ok, enable) ==
    IF ok > from
    THEN /\ requests' = Append(requests, ToggleRequest(ev, from, enable, FALSE))
         /\ pc' = "GetMessage" /\ cur' = 0
    ELSE /\ requests' = requests \o LoopRequests(ev, from, ok, enable)
         /\ IF ok <= Len(g_TouchScreens)
            THEN pc' = "WaitForSingleObject" /\ cur' = ok
            ELSE pc' = "GetMessage" /\ cur' = 0

\* The for loop of lines 182-185 with children that are launched and not
\* waited for, as if line 99 were missing.
RunLoop_NoWait(ev, from, ok, enable) ==
    /\ requests' = requests
                    \o [k \in 1..(Len(g_TouchScreens) - from + 1) |->
                           ToggleRequest(ev, from + k - 1, enable, TRUE)]
                    \o <<SoundRequest(ev, enable)>>
    /\ pc' = "GetMessage" /\ cur' = 0

RunLoop(ev, from, ok, enable) ==
    /\ requests' = requests \o LoopRequests(ev, from, ok, enable)
    /\ IF ok <= Len(g_TouchScreens)
       THEN pc' = "WaitForSingleObject" /\ cur' = ok
       ELSE pc' = "GetMessage" /\ cur' = 0

\* One message of the loop of lines 227-230, through pWndProc and
\* SetKbdHistoryIndex: tick is the reading of GetTickCount64.
WndProc(m, gap, ok) ==
    /\ pc = "GetMessage"
    /\ msg' = m
    /\ IF IsVolumeKeyDown(m)
       THEN LET tick == clock + gap
                timeSinceLast == tick - Last_Volume_Event
                i == GetAvailableKbdHistoryIndex(Current_Index, timeSinceLast)
                hist == [Volume_Event_History EXCEPT ![i] = m.VKey]
                checked == MatcherCalled(i)
                matched == checked /\ CheckForVolumeUpDownUpDown(hist)
                lock == IF matched THEN Toggled(lock_enabled) ELSE lock_enabled
                ev == Len(accepted) + 1
            IN  /\ clock' = tick
                /\ Last_Volume_Event' = tick
                /\ Volume_Event_History' = hist
                /\ Current_Index' = IF checked THEN IndexAfterCheck(i) ELSE i
                /\ lock_enabled' = lock
                /\ accepted' = Append(accepted,
                       [vk |-> m.VKey, time |-> tick, wait |-> gap,
                        since |-> timeSinceLast,
                        slot |-> i, checked |-> checked, matched |-> matched,
                        hist |-> hist, lock |-> lock,
                        index |-> IF checked THEN IndexAfterCheck(i) ELSE i])
                /\ IF matched
                   THEN /\ ok \in 1..(Len(g_TouchScreens) + 1)
                        /\ RunLoop(ev, 1, ok, EnableFlag(lock))
                   ELSE /\ ok = 1
                        /\ UNCHANGED <<pc, cur, requests>>
       ELSE /\ gap = DEBOUNCE_MS
            /\ ok = 1
            /\ UNCHANGED <<core, pc, cur, clock, accepted, requests>>
    /\ UNCHANGED <<g_TouchScreens, other, exits>>

\* The wait of line 99 given up after d ticks with the child still running,
\* as a wait with a timeout would be.
ChildExit_Timeout(d, ok) ==
    /\ pc = "WaitForSingleObject"
    /\ ok \in (cur + 1)..(Len(g_TouchScreens) + 1)
    /\ clock' = clock + d
    /\ RunLoop(Len(accepted), cur + 1, ok, EnableFlag(lock_enabled))
    /\ UNCHANGED <<core, g_TouchScreens, msg, other, exits, accepted>>

\* The exit of the child with the timestamp taken again after the wait, as
\* if line 73 came after the side effects of the match.
ChildExit_Restamp(d, ok) ==
    /\ pc = "WaitForSingleObject"
    /\ ok \in (cur + 1)..(Len(g_TouchScreens) + 1)
    /\ clock' = clock + d
    /\ exits' = exits + 1
    /\ Last_Volume_Event' = clock + d
    /\ RunLoop(Len(accepted), cur + 1, ok, EnableFlag(lock_enabled))
    /\ UNCHANGED <<Volume_Event_History, Current_Index, lock_enabled,
                   g_TouchScreens, msg, other, accepted>>

\* ToggleTouchDevice, lines 99-102: the child process exits after d ticks and
\* the for loop of line 182 goes on.
ChildExit(d, ok) ==
    /\ pc = "WaitForSingleObject"
    /\ ok \in (cur + 1)..(Len(g_TouchScreens) + 1)
    /\ clock' = clock + d
    /\ exits' = exits + 1
    /\ RunLoop(Len(accepted), cur + 1, ok, EnableFlag(lock_enabled))
    /\ UNCHANGED <<core, g_TouchScreens, msg, other, accepted>>

\* The cases the model runs: every message of Messages, hosts with no
\* digitizer and with MaxDevices of them, at most MaxEvents accepted events.
\* A second instance that is refused access to the mutex runs the same
\* pipeline as a first instance does: that start is left to SpecStartup.
Next ==
    \/ \E err \in {"ERROR_SUCCESS", "ERROR_ALREADY_EXISTS"}, n \in {0, MaxDevices} :
          WinMain(err, n)
    \/ \E m \in Messages, gap \in Gaps, ok \in 1..(MaxDevices + 1) :
          Len(accepted) < MaxEvents /\ WndProc(m, gap, ok)
    \/ \E d \in BlockTimes, ok \in 1..(MaxDevices + 1) : ChildExit(d, ok)

Spec == Init /\ [][Next]_vars

\* The same program with the volume keys alone being pressed, on a host with
\* MaxDevices digitizers: long enough for two gestures in a row.
NextDouble ==
    \/ WinMain("ERROR_SUCCESS", MaxDevices)
    \/ \E vk \in {VK_VOLUME_UP, VK_VOLUME_DOWN}, gap \in Gaps, ok \in 1..(MaxDevices + 1) :
          Len(accepted) < MaxDouble /\ WndProc(KeyDown(vk), gap, ok)
    \/ \E d \in BlockTimes, ok \in 1..(MaxDevices + 1) : ChildExit(d, ok)

SpecDouble == Init /\ [][NextDouble]_vars

\* The program up to MaxHang accepted events, with every pnputil child
\* exiting sooner or later.
ChildExits == \E d \in BlockTimes, ok \in 1..(MaxDevices + 1) : ChildExit(d, ok)

NextHang ==
    \/ \E err \in {"ERROR_SUCCESS", "ERROR_ALREADY_EXISTS"}, n \in {0, MaxDevices} :
          WinMain(err, n)
    \/ \E m \in Messages, gap \in Gaps, ok \in 1..(MaxDevices + 1) :
          Len(accepted) < MaxHang /\ WndProc(m, gap, ok)
    \/ ChildExits

SpecHang == Init /\ [][NextHang]_vars /\ WF_vars(ChildExits)

\* The start of an instance with every outcome of CreateMutex, followed by
\* up to MaxStartup accepted volume keys.
NextStartup ==
    \/ \E err \in {"ERROR_SUCCESS", "ERROR_ALREADY_EXISTS", "ERROR_ACCESS_DENIED"},
          n \in {0, MaxDevices} :
          WinMain(err, n)
    \/ \E vk \in {VK_VOLUME_UP, VK_VOLUME_DOWN}, gap \in Gaps, ok \in 1..(MaxDevices + 1) :
          Len(accepted) < MaxStartup /\ WndProc(KeyDown(vk), gap, ok)
    \/ \E d \in BlockTimes, ok \in 1..(MaxDevices + 1) : ChildExit(d, ok)

SpecStartup == Init /\ [][NextStartup]_vars

\* Volume keys that reach the thread right after the handling before them
\* (one tick) or late, on a host with MaxDevices digitizers whose pnputil
\* launches all succeed and whose children exit at once or after more than
\* the debounce time.
NextBlock ==
    \/ WinMain("ERROR_SUCCESS", MaxDevices)
    \/ \E vk \in {VK_VOLUME_UP, VK_VOLUME_DOWN}, gap \in {1, DEBOUNCE_MS + 1} :
          Len(accepted) < MaxBlock /\ WndProc(KeyDown(vk), gap, 1)
    \/ \E d \in BlockTimes : ChildExit(d, cur + 1)

SpecBlock == Init /\ [][NextBlock]_vars

-----------------------------------------------------------------------------
(* Reading the history variables *)

NEvents == Len(accepted)

UP == VK_VOLUME_UP

DOWN == VK_VOLUME_DOWN

\* The pattern of the gesture, as a buffer.
GesturePattern == [k \in 0..3 |-> IF k \in {0, 2} THEN UP ELSE DOWN]

\* Ticks between the readings taken for events i-1 and i.
Gap(i) == accepted[i].time - accepted[i - 1].time

\* Event i came more than 500 ms after the one before it, or is the first
\* event of the process with the tick counter above 500.
Late(i) == IF i = 1 THEN accepted[1].time > 500 ELSE Gap(i) > 500

\* Events i+1..j each came at most 500 ms after the one before.
Quick(i, j) == \A k \in (i + 1)..j : Gap(k) <= 500

\* Events i..i+3 are UP, DOWN, UP, DOWN.
IsGesture(i) ==
    /\ accepted[i].vk = UP
    /\ accepted[i + 1].vk = DOWN
    /\ accepted[i + 2].vk = UP
    /\ accepted[i + 3].vk = DOWN

LockBefore(i) == IF i = 1 THEN 0 ELSE accepted[i - 1].lock

\* Lock State changed in the handling of event i.
ToggledAt(i) == accepted[i].lock # LockBefore(i)

\* The handling of event i is over: the thread is back in GetMessage.
Handled(i) == i < NEvents \/ (i = NEvents /\ pc = "GetMessage")

\* The requests of kind op issued in the handling of events i..j.
Issued(op, i, j) ==
    {p \in DOMAIN requests : requests[p].op = op /\ requests[p].ev \in i..j}

\* One full round of requests was issued in the handling of events i..j:
\* one device request for every entry of the registry and one sound request.
Rounds(n, i, j) ==
    /\ \A k \in DOMAIN g_TouchScreens :
          Cardinality({p \in Issued("toggle", i, j) :
                          requests[p].device = g_TouchScreens[k]}) = n
    /\ Cardinality(Issued("toggle", i, j)) = n * Len(g_TouchScreens)
    /\ Cardinality(Issued("sound", i, j)) = n

-----------------------------------------------------------------------------
\* C1: a late UP followed by DOWN, UP, DOWN, each at most 500 ms after the
\* one before, toggles Lock State exactly once, on the fourth event, and
\* issues exactly one device request per registry entry and one sound request.
C1_CanonicalGesture ==
    \A i \in 1..(NEvents - 3) :
        (IsGesture(i) /\ Late(i) /\ Quick(i, i + 3) /\ Handled(i + 3))
        => /\ {j \in i..(i + 3) : ToggledAt(j)} = {i + 3}
           /\ Rounds(1, i, i + 3)

\* A gesture made after earlier events, on a host with digitizers, handled
\* to the end.
C1_Witness ==
    \E i \in 2..(NEvents - 3) :
        /\ IsGesture(i) /\ Late(i) /\ Quick(i, i + 3) /\ Handled(i + 3)
        /\ Len(g_TouchScreens) > 0

\* C2: Lock State toggles on an event only if that event and the three
\* before it are UP, DOWN, UP, DOWN, and the buffer then holds exactly those
\* four events.
C2_MatchIsLastFour ==
    \A i \in 1..NEvents :
        ToggledAt(i)
        => /\ i >= 4
           /\ IsGesture(i - 3)
           /\ \A k \in 0..3 : accepted[i].hist[k] = accepted[i - 3 + k].vk

\* C3: between two consecutive toggles of Lock State at least four accepted
\* events are handled.
C3_NoOverlap ==
    \A i, j \in 1..NEvents :
        (i < j /\ ToggledAt(i) /\ ToggledAt(j)) => j - i >= 4

\* C4: eight events UP, DOWN, UP, DOWN, UP, DOWN, UP, DOWN, the first in slot
\* 0 and each later one at most 500 ms after the one before, toggle Lock
\* State exactly twice, on the 4th and the 8th, so that it is back at its
\* value, with two rounds of device requests and two sound requests.
C4_DoubleTrigger ==
    \A i \in 1..(NEvents - 7) :
        (/\ accepted[i].slot = 0
         /\ IsGesture(i) /\ IsGesture(i + 4)
         /\ Quick(i, i + 7)
         /\ Handled(i + 7))
        => /\ {j \in i..(i + 7) : ToggledAt(j)} = {i + 3, i + 7}
           /\ accepted[i + 7].lock = LockBefore(i)
           /\ Rounds(2, i, i + 7)

\* C5: for events UP, DOWN, UP, DOWN with the first in slot 0 and one of the
\* three gaps above 500 ms, the matcher is not invoked and Lock State does
\* not toggle during the four events, the 4th is not written to slot 3, and
\* if it is the 3rd that comes late, it is written to slot 0.
C5_BrokenGesture ==
    \A i \in 1..(NEvents - 3) :
        (/\ accepted[i].slot = 0
         /\ IsGesture(i)
         /\ ~Quick(i, i + 3)
         /\ Handled(i + 3))
        => /\ \A j \in i..(i + 3) : ~accepted[j].checked /\ ~ToggledAt(j)
           /\ accepted[i + 3].slot # 3
           /\ (Gap(i + 2) > 500 => accepted[i + 2].slot = 0)
           /\ Issued("toggle", i, i + 3) = {}
           /\ Issued("sound", i, i + 3) = {}

\* The gesture of the spec's test: only the 3rd event comes late.
C5_Witness ==
    \E i \in 1..(NEvents - 3) :
        /\ accepted[i].slot = 0 /\ IsGesture(i) /\ Handled(i + 3)
        /\ Gap(i + 1) <= 500 /\ Gap(i + 2) > 500 /\ Gap(i + 3) <= 500
        /\ accepted[i + 3].slot = 1

\* C6: Lock State toggles on an event only if the three gaps between the
\* four most recent events are each at most 500 ms; the first and the last
\* of the four are then at most 1500 ms apart.
C6_DebounceSafety ==
    \A i \in 1..NEvents :
        ToggledAt(i)
        => /\ i >= 4
           /\ Quick(i - 3, i)
           /\ accepted[i].time - accepted[i - 3].time <= 1500

\* Two toggles, the second one made by three events on a stale slot 0.
C6_Witness ==
    \E i, j \in 1..NEvents : i < j /\ ToggledAt(i) /\ ToggledAt(j) /\ j - i < 4

\* The last event up to i whose handling reset the cursor by the timeout
\* (line 72), and the last event before i whose handling reset it in the
\* matcher (line 58); 0 if there is none.
Latest(S) == IF S = {} THEN 0 ELSE CHOOSE j \in S : \A k \in S : k <= j

LastTimeout(i) == Latest({j \in 1..i : accepted[j].since > 500})

LastCheck(i) == Latest({j \in 1..(i - 1) : accepted[j].checked})

\* The accepted events handled since the cursor was last reset, event i
\* included.
SinceReset(i) ==
    IF LastTimeout(i) > LastCheck(i) THEN i - LastTimeout(i) + 1 ELSE i - LastCheck(i)

\* C7: if fewer than 4 accepted events were handled since the cursor was last
\* reset to 0, by the timeout or by the matcher, the matcher is not invoked
\* and Lock State does not change.  Stated for the processes whose first
\* event is handled after tick 500, as every process started more than half
\* a second after boot is.
C7_FewerThanFour ==
    \A i \in 1..NEvents :
        (Late(1) /\ LastTimeout(i) + LastCheck(i) > 0 /\ SinceReset(i) < 4)
        => ~accepted[i].checked /\ ~ToggledAt(i)

HistBefore(i) == IF i = 1 THEN [k \in 0..3 |-> 0] ELSE accepted[i - 1].hist

\* C8: when an event is written to slot 3 and the buffer is not UP, DOWN, UP,
\* DOWN, Lock State is unchanged, no device or sound request is issued, the
\* buffer is the one before with slot 3 written, and the cursor is 0.
C8_NonMatching ==
    \A i \in 1..NEvents :
        (accepted[i].slot = 3 /\ accepted[i].hist # GesturePattern)
        => /\ accepted[i].lock = LockBefore(i)
           /\ Issued("toggle", i, i) = {}
           /\ Issued("sound", i, i) = {}
           /\ accepted[i].hist = [HistBefore(i) EXCEPT ![3] = accepted[i].vk]
           /\ accepted[i].index = 0
           /\ (i = NEvents => /\ Current_Index = 0
                              /\ Volume_Event_History = accepted[i].hist
                              /\ pc = "GetMessage")

\* The spec's example: UP, UP, DOWN, DOWN in the buffer at a slot-3 write.
C8_Witness ==
    /\ NEvents >= 4
    /\ accepted[NEvents].slot = 3
    /\ Volume_Event_History = [k \in 0..3 |-> IF k < 2 THEN UP ELSE DOWN]
    /\ Len(g_TouchScreens) > 0

\* A message that is not a keyboard key-down of VOLUME_UP or VOLUME_DOWN.
Unrelated(m) ==
    ~(/\ m.uMsg = "WM_INPUT" /\ m.dwType = "RIM_TYPEKEYBOARD"
      /\ m.Message = "WM_KEYDOWN" /\ m.VKey \in {UP, DOWN})

\* C9: the handling of a message that is not a key-down of a volume key
\* leaves the cursor, the buffer, the last-event timestamp and Lock State
\* unchanged and issues no request.
C9_Filtering ==
    [][(pc = "GetMessage" /\ Unrelated(msg'))
       => UNCHANGED <<core, accepted, requests, pc>>]_vars

\* A volume key going up was handled in the middle of a gesture.
C9_Witness ==
    /\ msg.Message = "WM_KEYUP"
    /\ NEvents = 2
    /\ Current_Index = 1
    /\ Volume_Event_History[0] = UP /\ Volume_Event_History[1] = DOWN

\* The events whose handling wrote slot 3 and left UP, DOWN, UP, DOWN in the
\* buffer.
Matches == {i \in 1..NEvents : accepted[i].slot = 3 /\ accepted[i].hist = GesturePattern}

\* C10: Lock State starts false, changes only in the handling of an event
\* written to slot 3 with the buffer UP, DOWN, UP, DOWN, flips in each such
\* handling, and so is true iff the number of matches so far is odd.
C10_LockParity ==
    /\ lock_enabled \in {0, 1}
    /\ lock_enabled = LockBefore(NEvents + 1)
    /\ \A i \in 1..NEvents : ToggledAt(i) <=> i \in Matches
    /\ lock_enabled = 1 <=> Cardinality(Matches) % 2 = 1

\* Two matches: Lock State is false again.
C10_Witness == Cardinality(Matches) = 2 /\ lock_enabled = 0

\* The requests issued in the handling of event i, in the order issued, each
\* as <<kind, device, argument>>.
RequestsOf(i) ==
    LET mine == SelectSeq(requests, LAMBDA r : r.ev = i)
    IN  [p \in 1..Len(mine) |-> <<mine[p].op, mine[p].device, mine[p].arg>>]

\* What a match that leaves Lock State at lock has to issue: a disable (an
\* enable) for every entry of the registry, in registry order, if the new
\* state is locked (unlocked), then the "off" (the "on") cue.
ExpectedRequests(lock) ==
    [k \in 1..Len(g_TouchScreens) |->
        <<"toggle", g_TouchScreens[k],
          IF lock = 1 THEN "/disable-device" ELSE "/enable-device">>]
    \o << <<"sound", 0, IF lock = 1 THEN "Speech Off.wav" ELSE "Speech On.wav">> >>

IsPrefix(a, b) == Len(a) <= Len(b) /\ \A p \in 1..Len(a) : a[p] = b[p]

\* C11: every match issues, after the flip of Lock State, one device request
\* per registry entry in registry order, disable if the new state is locked
\* and enable if unlocked, and then one sound request, the "off" cue if
\* locked and the "on" cue if unlocked, also when the registry is empty.
C11_MatchEffects ==
    \A i \in 1..NEvents :
        IF i \in Matches
        THEN /\ ToggledAt(i)
             /\ IsPrefix(RequestsOf(i), ExpectedRequests(accepted[i].lock))
             /\ Handled(i) => RequestsOf(i) = ExpectedRequests(accepted[i].lock)
        ELSE RequestsOf(i) = <<>>

\* A lock and an unlock, both handled to the end, on a host with digitizers.
C11_Witness ==
    /\ Cardinality(Matches) = 2
    /\ pc = "GetMessage"
    /\ Len(g_TouchScreens) >= 2
    /\ Len(requests) = 2 * (Len(g_TouchScreens) + 1)

\* C12: every accepted event but the first is written to slot 0 if it is
\* handled more than 500 ms after the one before, and otherwise to the slot
\* after the one the event before was written to, modulo 4; so the event
\* that follows a slot-3 write goes to slot 0.  Stated for the processes
\* whose first event is handled after tick 500.
C12_CursorAdvance ==
    \A i \in 2..NEvents :
        Late(1)
        => accepted[i].slot =
              IF Gap(i) > 500 THEN 0 ELSE (accepted[i - 1].slot + 1) % 4

\* C13: the cursor is in 0..3 in every state, and every write of the
\* debouncer is to a slot in 0..3 of the four-slot buffer.
C13_CursorInRange ==
    /\ Current_Index \in 0..3
    /\ DOMAIN Volume_Event_History = 0..3
    /\ \A i \in 1..NEvents :
          /\ accepted[i].slot \in 0..3
          /\ accepted[i].index \in 0..3
          /\ DOMAIN accepted[i].hist = 0..3

\* Every slot has been written, slot 3 twice, and the cursor is back at 0.
C13_Witness ==
    /\ Cardinality({i \in 1..NEvents : accepted[i].slot = 3}) = 2
    /\ {accepted[i].slot : i \in 1..NEvents} = 0..3
    /\ Current_Index = 0

\* The launch of a pnputil child failed in the handling of event i.
LaunchFailed(i) ==
    \E p \in DOMAIN requests :
        requests[p].ev = i /\ requests[p].op = "toggle" /\ ~requests[p].launched

\* C14: when a launch fails in the handling of a match, Lock State stays
\* flipped, there is still exactly one request per registry entry (no retry),
\* the requests for the other entries and the sound request are still
\* issued, and the thread is back in its message loop.
C14_ToggleFailure ==
    \A i \in 1..NEvents :
        (LaunchFailed(i) /\ Handled(i))
        => /\ i \in Matches
           /\ accepted[i].lock # LockBefore(i)
           /\ (i = NEvents => lock_enabled = accepted[i].lock /\ pc = "GetMessage")
           /\ Rounds(1, i, i)
           /\ RequestsOf(i) = ExpectedRequests(accepted[i].lock)

\* The launch for the first digitizer failed, the one for the second did
\* not, and the handling is over.
C14_Witness ==
    /\ Len(g_TouchScreens) >= 2
    /\ pc = "GetMessage"
    /\ \E p \in DOMAIN requests :
          /\ requests[p].device = g_TouchScreens[1] /\ ~requests[p].launched
          /\ p + 1 \in DOMAIN requests
          /\ requests[p + 1].device = g_TouchScreens[2] /\ requests[p + 1].launched
          /\ requests[p + 1].ev = requests[p].ev

\* C15: as long as the pnputil child waited for has not exited, no event is
\* handled, the cursor, the buffer and Lock State do not change and no
\* further request is issued, so a child that never exits stops the pipeline
\* for good; and if every child exits, the handling of the event ends.
C15_HangPropagation ==
    /\ [][(pc = "WaitForSingleObject" /\ exits' = exits)
          => UNCHANGED <<core, msg, accepted, requests, pc, cur>>]_vars
    /\ (pc = "WaitForSingleObject" ~> pc = "GetMessage")

\* The first child has exited and the second one is waited for: the sound
\* request is still to come.
C15_Witness ==
    /\ pc = "WaitForSingleObject"
    /\ exits = 1
    /\ cur = 2
    /\ Issued("sound", 1, NEvents) = {}

\* C16: an instance that starts while another instance holds the mutex
\* Global\SAGE_LOCK_INSTANCE exits without enumerating the digitizers,
\* without entering the message loop and without handling any event.
C16_SingleInstance ==
    other => /\ pc \in {"WinMain", "exit"}
             /\ g_TouchScreens = <<>>
             /\ accepted = <<>>
             /\ requests = <<>>

\* C17: the matcher is evaluated in the handling of an accepted event if and
\* only if the event was written to slot 3; every evaluation, matching or
\* not, leaves the cursor at 0; an event written to slot 0, 1 or 2 leaves
\* the cursor at the slot just written.
C17_MatcherOnSlotThree ==
    /\ \A i \in 1..NEvents :
          /\ accepted[i].checked <=> accepted[i].slot = HISTORY_LAST
          /\ accepted[i].checked => accepted[i].index = 0
          /\ accepted[i].slot \in 0..2 => accepted[i].index = accepted[i].slot
    /\ NEvents > 0 => Current_Index = accepted[NEvents].index

\* An evaluation that did not match, an event written to slot 2 after it,
\* and an evaluation that matched.
C17_Witness ==
    \E i, j, k \in 1..NEvents :
        /\ j < k
        /\ accepted[i].checked /\ accepted[i].matched /\ accepted[i].index = 0
        /\ accepted[j].checked /\ ~accepted[j].matched /\ accepted[j].index = 0
        /\ accepted[k].slot = 2 /\ ~accepted[k].checked

\* The cursor as event i found it.
IndexBefore(i) == IF i = 1 THEN 0 ELSE accepted[i - 1].index

\* C20: between the handling of two events the cursor is 0, 1 or 2, never 3,
\* so no event takes the branch of the debouncer that brings an incremented
\* cursor above 3 back to 0; slot 0 is written only by an event handled more
\* than 500 ms after the accepted event before it, or by the first event.
C20_ClampNeverTaken ==
    /\ Current_Index \in {0, 1, 2}
    /\ \A i \in 1..NEvents :
          /\ IndexBefore(i) \in {0, 1, 2}
          /\ ~(accepted[i].since <= DEBOUNCE_MS /\ IndexBefore(i) + 1 > HISTORY_LAST)
          /\ accepted[i].slot = 0 => (i = 1 \/ accepted[i].since > DEBOUNCE_MS)

\* An event written to slot 3 and a quick event after it: the case in which
\* the increment would leave the buffer had the cursor stayed at 3.
C20_Witness ==
    \E i \in 1..(NEvents - 1) :
        /\ accepted[i].slot = HISTORY_LAST
        /\ accepted[i + 1].since <= DEBOUNCE_MS
        /\ accepted[i + 1].slot = 1

\* The pnputil children launched and not yet exited.
InFlight ==
    Cardinality({p \in DOMAIN requests :
                    requests[p].op = "toggle" /\ requests[p].launched}) - exits

\* The state of the globals before any event, lines 50-53.
CoreInitial ==
    core = <<[k \in 0..3 |-> 0], 0, 0, 0>>

\* C18: at most one device request is in flight at any time; while one is
\* in flight no accepted event is handled and the cursor, the buffer, the
\* timestamp and Lock State do not change; the core state changes only in
\* the message loop of the input thread, which runs after the registry was
\* filled, and the registry does not change from then on.
C18_OneToggleInFlight ==
    /\ [](/\ InFlight \in {0, 1}
          /\ InFlight = 1 <=> pc = "WaitForSingleObject"
          /\ pc = "WinMain" => CoreInitial /\ accepted = <<>> /\ requests = <<>>)
    /\ [][InFlight = 1 => UNCHANGED <<core, accepted>>]_vars
    /\ [][core' # core => pc = "GetMessage" /\ UNCHANGED g_TouchScreens]_vars
    /\ [][pc # "WinMain" => UNCHANGED g_TouchScreens]_vars

\* The second pnputil child of a match is waited for, after a first match
\* and later events.
C18_Witness ==
    /\ InFlight = 1
    /\ exits > Len(g_TouchScreens)
    /\ cur = 2
    /\ \E i \in 1..(NEvents - 1) : accepted[i].matched

\* Ticks the thread spent in the handling of event i after it read the
\* clock: the time its pnputil children took.
Blocked(i) == accepted[i + 1].time - accepted[i + 1].wait - accepted[i].time

\* C19: the elapsed time of an event is the clock read in its handling minus
\* the clock read in the handling of the accepted event before it, the time
\* the requests of that event took included; so when the device requests of
\* a match take more than 500 ms in total the next accepted event is written
\* to slot 0 however soon after it arrives, and UP, DOWN, UP, DOWN made right
\* after such a match toggles Lock State on its fourth event.
C19_BlockingDebounces ==
    \A i \in 1..(NEvents - 1) :
        /\ accepted[i + 1].since = accepted[i + 1].time - accepted[i].time
        /\ (accepted[i].matched /\ Blocked(i) > DEBOUNCE_MS)
           => /\ accepted[i + 1].slot = 0
              /\ (/\ i + 4 <= NEvents
                  /\ IsGesture(i + 1)
                  /\ Quick(i + 1, i + 4))
                 => accepted[i + 4].matched /\ ToggledAt(i + 4)

\* A match whose requests took more than 500 ms, followed one tick later by
\* a second gesture that brought Lock State back.
C19_Witness ==
    \E i \in 1..(NEvents - 4) :
        /\ accepted[i].matched
        /\ Blocked(i) > DEBOUNCE_MS
        /\ accepted[i + 1].wait = 1
        /\ IsGesture(i + 1) /\ Quick(i + 1, i + 4)
        /\ accepted[i + 4].matched
        /\ accepted[i + 4].lock = 0

=============================================================================
